---- MODULE Spec2Model ----
(***************************************************************************)
(* Model of wallet-crypto/src/tx.rs: the typed 256-bit hash, the bounded   *)
(* Coin amount, the TxOut wire codec, and the (codec-less) Tx / TxAux      *)
(* structures.  Unsigned 64-bit integers are kept as 8 big-endian bytes so *)
(* that every comparison is done at the width the code uses.  The CBOR     *)
(* primitives, the crc32 wrapper and ExtendedAddr live in sibling files of *)
(* the crate (cbor.rs, address.rs); they are modelled at byte level        *)
(* and validated against the TX_OUT test vector of tx.rs.                  *)
(***************************************************************************)
EXTENDS Integers, Sequences, FiniteSets, TLC

VARIABLES op, pc, arg, origin, buf, decoder, addr, calls, result

vars == <<op, pc, arg, origin, buf, decoder, addr, calls, result>>

(***************************************************************************)
(* Bounds of the model                                                     *)
(***************************************************************************)
\* longest slice handed to Hash::from_slice / longest byte string decoded
MaxSliceLen == 33
\* number of distinct byte patterns used to fill slices and digests
MaxSeed == 1
\* largest element count written in a (possibly corrupted) TxOut array marker
MaxArrayLen == 3
\* largest number of inputs / witnesses of a Tx / TxAux value
MaxInputs == 2

(***************************************************************************)
(* Bytes, Option, Result                                                   *)
(***************************************************************************)
None == <<>>
Some(v) == <<v>>
IsSome(o) == Len(o) = 1
Unwrap(o) == o[1]

Ok(v) == [ok |-> TRUE, val |-> <<v>>, err |-> ""]
Err(e) == [ok |-> FALSE, val |-> <<>>, err |-> e]

\* F applied to the value of e, with e evaluated once
Let(e, F(_)) == CHOOSE r \in {F(x) : x \in {e}} : TRUE

\* a deterministic byte pattern of length n
Pattern(seed, n) == [i \in 1..n |-> (seed * 37 + i * (2 * seed + 1)) % 256]

(***************************************************************************)
(* u64 as 8 big-endian bytes                                               *)
(***************************************************************************)
U64Zero == <<0, 0, 0, 0, 0, 0, 0, 0>>

\* the 8 elements of f as an explicit tuple
Tuple8(f) == Let(f, LAMBDA g : <<g[1], g[2], g[3], g[4], g[5], g[6], g[7], g[8]>>)

\* the u64 whose value is the small natural n (n < 2^24)
U64Of(n) == <<0, 0, 0, 0, 0, (n \div 65536) % 256, (n \div 256) % 256, n % 256>>

\* the u64 whose big-endian bytes, without leading zeros, are bs (Len(bs) <= 8)
U64FromBytes(bs) == Tuple8([i \in 1..8 |-> IF i <= 8 - Len(bs) THEN 0 ELSE bs[i - (8 - Len(bs))]])

\* index of the first byte where a and b differ, 9 when equal
FirstDiff(a, b) ==
    LET D == {i \in 1..8 : a[i] # b[i]}
    IN  IF D = {} THEN 9 ELSE CHOOSE i \in D : \A j \in D : i <= j

\* a <= b on unsigned 64-bit integers
U64Leq(a, b) ==
    LET i == FirstDiff(a, b)
    IN  i = 9 \/ a[i] < b[i]

\* number of significant (non leading-zero) bytes of a
U64Width(a) == 9 - FirstDiff(a, U64Zero)

\* a + 1 (wrapping at 2^64)
RECURSIVE U64IncAt(_, _)
U64IncAt(a, i) ==
    IF i = 0 THEN a
    ELSE IF a[i] = 255 THEN U64IncAt([a EXCEPT ![i] = 0], i - 1)
    ELSE [a EXCEPT ![i] = a[i] + 1]
U64Succ(a) == Tuple8(U64IncAt(a, 8))

(***************************************************************************)
(* Hash<T>                                                                 *)
(***************************************************************************)
\* the digest length, [u8;32]
HASH_SIZE == 32

\* Hash { digest: bytes, _phantom }: the phantom tag carries no data
Hash_from_bytes(bytes) == [digest |-> bytes]

Hash_from_slice_AtMost(bytes) ==
    IF Len(bytes) > HASH_SIZE THEN None
    ELSE Some(Hash_from_bytes([i \in 1..HASH_SIZE |-> IF i <= Len(bytes) THEN bytes[i] ELSE 0]))

Hash_from_slice(bytes) ==
    IF Len(bytes) # HASH_SIZE THEN None
    ELSE LET buf0 == [i \in 1..HASH_SIZE |-> 0]
             buf1 == [i \in 1..HASH_SIZE |-> bytes[i]]
         IN  Some(Hash_from_bytes(buf1))

(***************************************************************************)
(* Coin                                                                    *)
(***************************************************************************)
\* 45000000000000000 = 0x009FDF42F6E48000
MAX_COIN == <<0, 159, 223, 66, 246, 228, 128, 0>>

Coin_new_Strict(v) == IF U64Leq(v, MAX_COIN) /\ v # MAX_COIN THEN Some([value |-> v]) ELSE None

Coin_new(v) == IF U64Leq(v, MAX_COIN) THEN Some([value |-> v]) ELSE None

(***************************************************************************)
(* cbor::encode / cbor::decode::Decoder (crate file cbor.rs).  A decoder   *)
(* is the sequence of bytes it still holds; every read returns the result  *)
(* and the decoder after it (unchanged when the read fails).               *)
(***************************************************************************)
MT_UINT == 0
MT_BYTES == 2
MT_ARRAY == 4
MT_MAP == 5
MT_TAG == 6

NotEnough == "NotEnough"
WrongMajorType == "WrongMajorType"
InvalidAdditional == "InvalidAdditionalInfo"

Drop(s, n) == SubSeq(s, n + 1, Len(s))
Take(s, n) == SubSeq(s, 1, n)

\* the header of major type mt carrying the unsigned value v, shortest form
cbor_write_header(mt, v, b) ==
    LET w == U64Width(v)
    IN  IF w <= 1 /\ v[8] < 24 THEN b \o <<mt * 32 + v[8]>>
        ELSE IF w <= 1 THEN b \o <<mt * 32 + 24, v[8]>>
        ELSE IF w <= 2 THEN b \o <<mt * 32 + 25>> \o SubSeq(v, 7, 8)
        ELSE IF w <= 4 THEN b \o <<mt * 32 + 26>> \o SubSeq(v, 5, 8)
        ELSE b \o <<mt * 32 + 27>> \o v

cbor_encode_uint(v, b) == cbor_write_header(MT_UINT, v, b)
cbor_encode_bs(bytes, b) == cbor_write_header(MT_BYTES, U64Of(Len(bytes)), b) \o bytes
cbor_encode_array_start(n, b) == cbor_write_header(MT_ARRAY, U64Of(n), b)
cbor_encode_map_start(n, b) == cbor_write_header(MT_MAP, U64Of(n), b)
cbor_encode_tag(n, b) == cbor_write_header(MT_TAG, U64Of(n), b)

\* read one header of major type mt: its value, and the decoder after it
Decoder_header(d, mt) ==
    IF Len(d) = 0 THEN [res |-> Err(NotEnough), d |-> d]
    ELSE LET b0 == d[1]
             ai == b0 % 32
             n  == IF ai < 24 THEN 0
                   ELSE IF ai = 24 THEN 1
                   ELSE IF ai = 25 THEN 2
                   ELSE IF ai = 26 THEN 4
                   ELSE 8
         IN  IF b0 \div 32 # mt THEN [res |-> Err(WrongMajorType), d |-> d]
             ELSE IF ai > 27 THEN [res |-> Err(InvalidAdditional), d |-> d]
             ELSE IF Len(d) < 1 + n THEN [res |-> Err(NotEnough), d |-> d]
             ELSE IF ai < 24 THEN [res |-> Ok(U64Of(ai)), d |-> Drop(d, 1)]
             ELSE [res |-> Ok(U64FromBytes(SubSeq(d, 2, 1 + n))), d |-> Drop(d, 1 + n)]

Decoder_uint(d) == Decoder_header(d, MT_UINT)
Decoder_array_start(d) == Decoder_header(d, MT_ARRAY)
Decoder_map_start(d) == Decoder_header(d, MT_MAP)
Decoder_tag(d) == Decoder_header(d, MT_TAG)

\* read one definite-length byte string
Decoder_bs(d) ==
    Let(Decoder_header(d, MT_BYTES), LAMBDA h :
    IF ~h.res.ok THEN h
    ELSE Let(Unwrap(h.res.val), LAMBDA l :
         IF U64Width(l) > 2 \/ Len(h.d) < l[7] * 256 + l[8] THEN [res |-> Err(NotEnough), d |-> d]
         ELSE [res |-> Ok(Take(h.d, l[7] * 256 + l[8])), d |-> Drop(h.d, l[7] * 256 + l[8])]))

(***************************************************************************)
(* crc32 (IEEE 802.3, reflected, polynomial 0xEDB88320) on 4 big-endian    *)
(* bytes, as used by cbor::hs::util::{encode,decode}_with_crc32.           *)
(***************************************************************************)
RECURSIVE BitXor(_, _)
BitXor(a, b) ==
    IF a = 0 THEN b
    ELSE IF b = 0 THEN a
    ELSE ((a + b) % 2) + 2 * BitXor(a \div 2, b \div 2)

Xor4(x, y) == <<BitXor(x[1], y[1]), BitXor(x[2], y[2]), BitXor(x[3], y[3]), BitXor(x[4], y[4])>>
Shr1(x) ==
    <<x[1] \div 2, (x[2] \div 2) + (x[1] % 2) * 128,
      (x[3] \div 2) + (x[2] % 2) * 128, (x[4] \div 2) + (x[3] % 2) * 128>>
CrcPoly == <<237, 184, 131, 32>>

RECURSIVE CrcBits(_, _)
CrcBits(c, k) ==
    IF k = 0 THEN c
    ELSE Let(IF c[4] % 2 = 1 THEN Xor4(CrcPoly, Shr1(c)) ELSE Shr1(c),
             LAMBDA n : CrcBits(n, k - 1))

Crc32Table == [n \in 0..255 |-> CrcBits(<<0, 0, 0, n>>, 8)]

\* the register c after one more byte
Crc32Step(c, byte) ==
    Let(Crc32Table[BitXor(c[4], byte)], LAMBDA t : Xor4(t, <<0, c[1], c[2], c[3]>>))

\* the register c after bytes[lo..hi], folded by halves
RECURSIVE Crc32Fold(_, _, _, _)
Crc32Fold(c, bytes, lo, hi) ==
    IF lo > hi THEN c
    ELSE IF lo = hi THEN Crc32Step(c, bytes[lo])
    ELSE Let((lo + hi) \div 2,
             LAMBDA mid : Let(Crc32Fold(c, bytes, lo, mid),
                              LAMBDA l : Crc32Fold(l, bytes, mid + 1, hi)))

\* the checksum of bytes, widened to the u64 the codec writes
crc32(bytes) ==
    Let(bytes, LAMBDA bs :
        Let(Crc32Fold(<<255, 255, 255, 255>>, bs, 1, Len(bs)),
            LAMBDA c : <<0, 0, 0, 0, 255 - c[1], 255 - c[2], 255 - c[3], 255 - c[4]>>))

(***************************************************************************)
(* address::ExtendedAddr and its CBOR form (crate file address.rs)         *)
(***************************************************************************)
\* length of the address root, a Blake2b-224 digest
ADDR_HASH_SIZE == 28
ATPubKey == 0
ATScript == 1
ATRedeem == 2

BootstrapEraDistr == [kind |-> "BootstrapEraDistr", id |-> <<>>]
SingleKeyDistr(id) == [kind |-> "SingleKeyDistr", id |-> id]

ExtendedAddr_new(root, ty, sd, dp) ==
    [addr |-> root, attributes |-> [derivation_path |-> dp, stake_distribution |-> sd], addr_type |-> ty]

StakeDistribution_encode(sd, b) ==
    IF sd.kind = "BootstrapEraDistr" THEN cbor_encode_uint(U64Of(1), cbor_encode_array_start(1, b))
    ELSE cbor_encode_bs(sd.id, cbor_encode_uint(U64Of(0), cbor_encode_array_start(2, b)))

Attributes_encode(at, b) ==
    LET hasSd == at.stake_distribution.kind # "BootstrapEraDistr"
        hasDp == IsSome(at.derivation_path)
        b0 == cbor_encode_map_start((IF hasSd THEN 1 ELSE 0) + (IF hasDp THEN 1 ELSE 0), b)
        b1 == IF hasSd
              THEN cbor_encode_bs(StakeDistribution_encode(at.stake_distribution, <<>>),
                                  cbor_encode_uint(U64Of(0), b0))
              ELSE b0
    IN  IF hasDp
        THEN cbor_encode_bs(cbor_encode_bs(Unwrap(at.derivation_path), <<>>),
                            cbor_encode_uint(U64Of(1), b1))
        ELSE b1

ExtendedAddr_encode(ea, b) ==
    cbor_encode_uint(U64Of(ea.addr_type),
        Attributes_encode(ea.attributes,
            cbor_encode_bs(ea.addr, cbor_encode_array_start(3, b))))

InvalidAddr == "invalid ExtendedAddr"

StakeDistribution_decode(d) ==
    Let(Decoder_array_start(d), LAMBDA a :
    IF ~a.res.ok THEN a
    ELSE Let(Decoder_uint(a.d), LAMBDA t :
         IF ~t.res.ok THEN [res |-> t.res, d |-> d]
         ELSE IF Unwrap(a.res.val) = U64Of(1) /\ Unwrap(t.res.val) = U64Of(1)
              THEN [res |-> Ok(BootstrapEraDistr), d |-> t.d]
         ELSE IF Unwrap(a.res.val) = U64Of(2) /\ Unwrap(t.res.val) = U64Of(0)
              THEN Let(Decoder_bs(t.d), LAMBDA i :
                   IF ~i.res.ok THEN [res |-> i.res, d |-> d]
                   ELSE IF Len(Unwrap(i.res.val)) # ADDR_HASH_SIZE
                        THEN [res |-> Err(InvalidAddr), d |-> d]
                   ELSE [res |-> Ok(SingleKeyDistr(Unwrap(i.res.val))), d |-> i.d])
         ELSE [res |-> Err(InvalidAddr), d |-> d]))

\* read n more attribute entries into at
RECURSIVE Attributes_entries(_, _, _)
Attributes_entries(d, n, at) ==
    IF n = 0 THEN [res |-> Ok(at), d |-> d]
    ELSE Let(Decoder_uint(d), LAMBDA k :
         IF ~k.res.ok THEN k
         ELSE Let(Decoder_bs(k.d), LAMBDA v :
              IF ~v.res.ok THEN v
              ELSE IF Unwrap(k.res.val) = U64Of(0)
                   THEN Let(StakeDistribution_decode(Unwrap(v.res.val)), LAMBDA sd :
                        IF ~sd.res.ok THEN [res |-> sd.res, d |-> d]
                        ELSE Let([at EXCEPT !.stake_distribution = Unwrap(sd.res.val)],
                                 LAMBDA at1 : Attributes_entries(v.d, n - 1, at1)))
              ELSE IF Unwrap(k.res.val) = U64Of(1)
                   THEN Let(Decoder_bs(Unwrap(v.res.val)), LAMBDA dp :
                        IF ~dp.res.ok THEN [res |-> dp.res, d |-> d]
                        ELSE Let([at EXCEPT !.derivation_path = Some(Unwrap(dp.res.val))],
                                 LAMBDA at1 : Attributes_entries(v.d, n - 1, at1)))
              ELSE [res |-> Err(InvalidAddr), d |-> d]))

Attributes_decode(d) ==
    Let(Decoder_map_start(d), LAMBDA m :
    IF ~m.res.ok THEN m
    ELSE IF U64Width(Unwrap(m.res.val)) > 1 \/ Unwrap(m.res.val)[8] > 2
         THEN [res |-> Err(InvalidAddr), d |-> d]
    ELSE Attributes_entries(m.d, Unwrap(m.res.val)[8],
             [derivation_path |-> None, stake_distribution |-> BootstrapEraDistr]))

ExtendedAddr_decode(d) ==
    Let(Decoder_array_start(d), LAMBDA a :
    IF ~a.res.ok THEN a
    ELSE IF Unwrap(a.res.val) # U64Of(3) THEN [res |-> Err(InvalidAddr), d |-> d]
    ELSE Let(Decoder_bs(a.d), LAMBDA h :
         IF ~h.res.ok THEN [res |-> h.res, d |-> d]
         ELSE IF Len(Unwrap(h.res.val)) # ADDR_HASH_SIZE THEN [res |-> Err(InvalidAddr), d |-> d]
         ELSE Let(Attributes_decode(h.d), LAMBDA at :
              IF ~at.res.ok THEN [res |-> at.res, d |-> d]
              ELSE Let(Decoder_uint(at.d), LAMBDA ty :
                   IF ~ty.res.ok THEN [res |-> ty.res, d |-> d]
                   ELSE IF ~U64Leq(Unwrap(ty.res.val), U64Of(ATRedeem))
                        THEN [res |-> Err(InvalidAddr), d |-> d]
                   ELSE [res |-> Ok([addr |-> Unwrap(h.res.val),
                                     attributes |-> Unwrap(at.res.val),
                                     addr_type |-> Unwrap(ty.res.val)[8]]),
                         d |-> ty.d]))))

(***************************************************************************)
(* cbor::hs::util::encode_with_crc32 / decode_with_crc32                   *)
(***************************************************************************)
CRC_TAG == 24
ChecksumMismatch == "ChecksumMismatch"
InvalidCrcWrapper == "invalid crc32 wrapper"

encode_with_crc32(ea, b) ==
    Let(ExtendedAddr_encode(ea, <<>>), LAMBDA raw :
    Let(crc32(raw), LAMBDA crc :
        cbor_encode_uint(crc,
            cbor_encode_bs(raw,
                cbor_encode_tag(CRC_TAG, cbor_encode_array_start(2, b))))))

decode_with_crc32(d) ==
    Let(Decoder_array_start(d), LAMBDA a :
    IF ~a.res.ok THEN a
    ELSE IF Unwrap(a.res.val) # U64Of(2) THEN [res |-> Err(InvalidCrcWrapper), d |-> d]
    ELSE Let(Decoder_tag(a.d), LAMBDA t :
         IF ~t.res.ok THEN [res |-> t.res, d |-> d]
         ELSE IF Unwrap(t.res.val) # U64Of(CRC_TAG) THEN [res |-> Err(InvalidCrcWrapper), d |-> d]
         ELSE Let(Decoder_bs(t.d), LAMBDA bs :
              IF ~bs.res.ok THEN [res |-> bs.res, d |-> d]
              ELSE Let(Decoder_uint(bs.d), LAMBDA c :
                   IF ~c.res.ok THEN [res |-> c.res, d |-> d]
                   ELSE IF Unwrap(c.res.val) # crc32(Unwrap(bs.res.val))
                        THEN [res |-> Err(ChecksumMismatch), d |-> d]
                   ELSE [res |-> ExtendedAddr_decode(Unwrap(bs.res.val)).res, d |-> c.d]))))

(***************************************************************************)
(* tx.rs: the codecs of Hash<T>, Coin and TxOut                            *)
(***************************************************************************)
InvalidLength == "invalid length for Hash"
OutOfBounds == "Coin out of bound"
MalformedStructure == "TxOut should contains 2 elements"

Hash_encode(h, b) == cbor_encode_bs(h.digest, b)

Hash_decode_Pad(d) ==
    LET bs == Decoder_bs(d)
    IN  IF ~bs.res.ok THEN bs
        ELSE IF Len(Unwrap(bs.res.val)) > HASH_SIZE THEN [res |-> Err(InvalidLength), d |-> bs.d]
        ELSE [res |-> Ok(Unwrap(Hash_from_slice_AtMost(Unwrap(bs.res.val)))), d |-> bs.d]

Hash_decode(d) ==
    LET bs == Decoder_bs(d)
    IN  IF ~bs.res.ok THEN bs
        ELSE LET o == Hash_from_slice(Unwrap(bs.res.val))
             IN  IF ~IsSome(o) THEN [res |-> Err(InvalidLength), d |-> bs.d]
                 ELSE [res |-> Ok(Unwrap(o)), d |-> bs.d]

Coin_encode(c, b) == cbor_encode_uint(c.value, b)

Coin_decode_NoCheck(d) ==
    LET value == Decoder_uint(d)
    IN  IF ~value.res.ok THEN value
        ELSE [res |-> Ok([value |-> Unwrap(value.res.val)]), d |-> value.d]

Coin_decode(d) ==
    LET value == Decoder_uint(d)
    IN  IF ~value.res.ok THEN value
        ELSE LET o == Coin_new(Unwrap(value.res.val))
             IN  IF ~IsSome(o) THEN [res |-> Err(OutOfBounds), d |-> value.d]
                 ELSE [res |-> Ok(Unwrap(o)), d |-> value.d]

TxOut_new(a, value) == [address |-> a, value |-> value]

TxOut_encode_CoinFirst(t, b) ==
    encode_with_crc32(t.address, Coin_encode(t.value, cbor_encode_array_start(2, b)))

TxOut_encode(t, b) ==
    Coin_encode(t.value, encode_with_crc32(t.address, cbor_encode_array_start(2, b)))

\* TxOut::decode, first step: the array marker and its element count
TxOut_decode_array_NoCheck(d) == Decoder_array_start(d)

TxOut_decode_array(d) ==
    LET l == Decoder_array_start(d)
    IN  IF ~l.res.ok THEN l
        ELSE IF Unwrap(l.res.val) # U64Of(2) THEN [res |-> Err(MalformedStructure), d |-> l.d]
        ELSE l

\* TxOut::decode, second step: the address with its crc32
TxOut_decode_addr_LateChecksum(d) ==
    Let(decode_with_crc32(d), LAMBDA r :
        IF r.res.ok \/ r.res.err # ChecksumMismatch THEN r
        ELSE [res |-> Ok(ExtendedAddr_new(<<>>, ATPubKey, BootstrapEraDistr, None)),
              d |-> Decoder_uint(Decoder_bs(Decoder_tag(Decoder_array_start(d).d).d).d).d])

TxOut_decode_addr(d) == decode_with_crc32(d)

\* TxOut::decode, last step: the coin, then the value built from both fields
TxOut_decode_coin_Recover(d, a) ==
    LET value == Coin_decode(d)
    IN  IF ~value.res.ok THEN [res |-> Ok(TxOut_new(a, [value |-> U64Zero])), d |-> value.d]
        ELSE [res |-> Ok(TxOut_new(a, Unwrap(value.res.val))), d |-> value.d]

TxOut_decode_coin(d, a) ==
    LET value == Coin_decode(d)
    IN  IF ~value.res.ok THEN value
        ELSE [res |-> Ok(TxOut_new(a, Unwrap(value.res.val))), d |-> value.d]

\* the CBOR encoded TxOut of the tests
TX_OUT ==
    <<130, 130, 216, 24, 88, 41, 131, 88, 28, 131, 238, 161, 181, 236, 142, 128, 38, 101,
      129, 70, 74, 238, 14, 45, 106, 69, 253, 109, 123, 158, 26, 152, 58, 80, 72, 205, 21,
      161, 1, 70, 69, 1, 2, 3, 4, 5, 0, 26, 157, 69, 136, 74, 24, 42>>

(***************************************************************************)
(* tx.rs: TxIn, TxInWitness, Tx, TxAux.  Plain structures: the file gives  *)
(* them no constructor and no ToCBOR / FromCBOR implementation.  Keys,     *)
(* signatures and the placeholder u8 scripts are kept as small numbers.    *)
(***************************************************************************)
TxIn_new(id, index) == [id |-> id, index |-> index]
PkWitness(xpub, sig) == [kind |-> "PkWitness", a |-> xpub, b |-> sig]
ScriptWitness(validator, redeemer) == [kind |-> "ScriptWitness", a |-> validator, b |-> redeemer]
RedeemWitness(key, sig) == [kind |-> "RedeemWitness", a |-> key, b |-> sig]
Tx_new(inputs, outputs) == [inputs |-> inputs, outputs |-> outputs]
TxAux_new(tx, witnesses) == [tx |-> tx, witnesses |-> witnesses]

\* the types of tx.rs that implement ToCBOR and FromCBOR
CborImpls == {"Hash", "Coin", "TxOut"}
NotImplemented == "the trait bound ToCBOR + FromCBOR is not satisfied"

(***************************************************************************)
(* The values and byte strings the operations are run on                   *)
(***************************************************************************)
Seeds == 0..MaxSeed

U64Max == <<255, 255, 255, 255, 255, 255, 255, 255>>

\* amounts at every width of the integer encoding and on both sides of MAX_COIN
CoinInputs ==
    { U64Zero, U64Of(23), U64Of(24), U64Of(42), U64Of(255), U64Of(256), U64Of(65535),
      U64Of(65536), <<0, 0, 0, 0, 255, 255, 255, 255>>, <<0, 0, 0, 1, 0, 0, 0, 0>>,
      <<0, 159, 223, 66, 246, 228, 127, 255>>, MAX_COIN, U64Succ(MAX_COIN),
      <<0, 159, 223, 66, 246, 228, 128, 0 + MaxSeed>>, <<0, 160, 0, 0, 0, 0, 0, 0>>,
      <<1, 0, 0, 0, 0, 0, 0, 0>>, <<128, 0, 0, 0, 0, 0, 0, 0>>, U64Max }

\* the amounts written in TxOut inputs
TxOutCoinInputs ==
    { U64Zero, U64Of(42), <<0, 0, 0, 1, 0, 0, 0, 0>>, MAX_COIN, U64Succ(MAX_COIN), U64Max }

SliceInputs == { Pattern(s, n) : s \in Seeds, n \in 0..MaxSliceLen }

AddrInputs ==
    { ExtendedAddr_new(Pattern(s, ADDR_HASH_SIZE), ty, sd, dp) :
        s \in Seeds, ty \in {ATPubKey, ATScript, ATRedeem},
        sd \in {BootstrapEraDistr, SingleKeyDistr(Pattern(7, ADDR_HASH_SIZE))},
        dp \in {None, Some(<<1, 2, 3, 4, 5>>)} }

\* each address with its crc32-wrapped encoding
WrappedInputs == { [ea |-> a, bytes |-> encode_with_crc32(a, <<>>)] : a \in AddrInputs }

\* the wrapped encoding w, intact, or with its checksum or its last payload byte changed
Corrupt(w, how) ==
    LET crcAt == Decoder_bs(Drop(w, 3))
        n == Len(w) - Len(crcAt.d)
        crc == Unwrap(Decoder_uint(crcAt.d).res.val)
    IN  IF how = "badcrc" THEN cbor_encode_uint(U64Succ(crc), Take(w, n))
        ELSE IF how = "badpayload" THEN [w EXCEPT ![n] = (w[n] + 1) % 3]
        ELSE w

Wraps == {"ok", "badcrc", "badpayload"}

\* byte strings handed to Decoder::extend, each with how it was built
UintWire ==
    { [kind |-> "uint", bytes |-> cbor_encode_uint(v, <<>>), v |-> v] : v \in CoinInputs }
    \cup { [kind |-> "uint", bytes |-> <<27>> \o v, v |-> v] : v \in CoinInputs }

BsWire == { [kind |-> "bs", bytes |-> cbor_encode_bs(b, <<>>), slice |-> b] : b \in SliceInputs }

TxOutWire ==
    { [kind |-> "txout",
       bytes |-> cbor_encode_uint(v, cbor_encode_array_start(n, <<>>) \o Corrupt(w.bytes, how)),
       n |-> n, wrap |-> how, ea |-> w.ea, v |-> v] :
        n \in 0..MaxArrayLen, w \in WrappedInputs, how \in Wraps, v \in TxOutCoinInputs }

VectorWire == { [kind |-> "vector", bytes |-> Take(TX_OUT, k), cut |-> k] : k \in 0..Len(TX_OUT) }

WireInputs == UintWire \cup BsWire \cup TxOutWire \cup VectorWire

\* values handed to cbor::hs::encode_decode
CoinValues == { Unwrap(Coin_new(v)) : v \in {w \in CoinInputs : IsSome(Coin_new(w))} }
HashValues == { Hash_from_bytes(Pattern(s, HASH_SIZE)) : s \in Seeds }
TxOutValues ==
    { TxOut_new(a, c) : a \in AddrInputs,
                        c \in {[value |-> U64Of(42)], [value |-> MAX_COIN], [value |-> U64Zero]} }

TxInSeq(k) == [i \in 1..k |-> TxIn_new(Hash_from_bytes(Pattern(i, HASH_SIZE)), i - 1)]
WitnessSeq(k, j) ==
    [i \in 1..k |-> IF (i + j) % 3 = 0 THEN PkWitness(i, j)
                    ELSE IF (i + j) % 3 = 1 THEN ScriptWitness(i, j)
                    ELSE RedeemWitness(i, j)]
TxValues ==
    { Tx_new(TxInSeq(k), outs) :
        k \in 0..MaxInputs,
        outs \in {<<>>, <<TxOut_new(ExtendedAddr_new(Pattern(0, ADDR_HASH_SIZE), ATPubKey,
                                                    BootstrapEraDistr, None),
                                   [value |-> U64Of(42)])>>} }
WitnessLists == { WitnessSeq(k, j) : k \in 0..MaxInputs, j \in 0..2 }
TxAuxValues == { TxAux_new(tx, ws) : tx \in TxValues, ws \in WitnessLists }

Types == {"Hash", "Coin", "TxOut", "Tx", "TxAux"}
ValuesOf(ty) ==
    IF ty = "Hash" THEN HashValues
    ELSE IF ty = "Coin" THEN CoinValues
    ELSE IF ty = "TxOut" THEN TxOutValues
    ELSE IF ty = "Tx" THEN TxValues
    ELSE TxAuxValues

Encode(ty, x) ==
    IF ty = "Hash" THEN Hash_encode(x, <<>>)
    ELSE IF ty = "Coin" THEN Coin_encode(x, <<>>)
    ELSE TxOut_encode(x, <<>>)

NoArg == [kind |-> "none", bytes |-> <<>>]
NoOrigin == [ty |-> "none", val |-> <<>>]

Init ==
    /\ op = "none"
    /\ pc = "idle"
    /\ arg = NoArg
    /\ origin = NoOrigin
    /\ buf = <<>>
    /\ decoder = <<>>
    /\ addr = None
    /\ calls = <<>>
    /\ result = Err("")

\* Coin::new(v)
CoinNew(v) ==
    /\ pc = "idle"
    /\ op' = "Coin::new"
    /\ arg' = [kind |-> "u64", bytes |-> <<>>, v |-> v]
    /\ result' = Coin_new(v)
    /\ pc' = "done"
    /\ UNCHANGED <<origin, buf, decoder, addr, calls>>

\* Hash::from_slice(bytes)
HashFromSlice(bytes) ==
    /\ pc = "idle"
    /\ op' = "Hash::from_slice"
    /\ arg' = [kind |-> "slice", bytes |-> <<>>, slice |-> bytes]
    /\ result' = Hash_from_slice(bytes)
    /\ pc' = "done"
    /\ UNCHANGED <<origin, buf, decoder, addr, calls>>

\* TxAux { tx: tx, witnesses: ws }: a struct literal, nothing is validated
TxAuxConstruct(tx, ws) ==
    /\ pc = "idle"
    /\ op' = "TxAux"
    /\ arg' = [kind |-> "txaux", bytes |-> <<>>, tx |-> tx, witnesses |-> ws]
    /\ result' = Ok(TxAux_new(tx, ws))
    /\ pc' = "done"
    /\ UNCHANGED <<origin, buf, decoder, addr, calls>>

\* cbor::hs::encode_decode(&x), first half: x.encode(&mut buf).  A type
\* without the two implementations cannot be handed to it at all.
EncodeValue(ty, x) ==
    /\ pc = "idle"
    /\ op' = "encode_decode"
    /\ origin' = [ty |-> ty, val |-> x]
    /\ IF ty \in CborImpls
       THEN /\ buf' = Encode(ty, x)
            /\ pc' = "encoded"
            /\ UNCHANGED result
       ELSE /\ result' = Err(NotImplemented)
            /\ pc' = "done"
            /\ UNCHANGED buf
    /\ UNCHANGED <<arg, decoder, addr, calls>>

\* cbor::hs::encode_decode, second half: a new decoder is given the buffer
ExtendEncoded ==
    /\ pc = "encoded"
    /\ decoder' = buf
    /\ arg' = [kind |-> "encoded", bytes |-> buf]
    /\ pc' = "loaded"
    /\ UNCHANGED <<op, origin, buf, addr, calls, result>>

\* Decoder::new(); decoder.extend(bytes)
Extend(w) ==
    /\ pc = "idle"
    /\ op' = "extend"
    /\ decoder' = w.bytes
    /\ arg' = w
    /\ pc' = "loaded"
    /\ UNCHANGED <<origin, buf, addr, calls, result>>

\* the decoder of type ty may run on what is loaded
MayDecode(ty) == pc = "loaded" /\ (arg.kind = "encoded" => origin.ty = ty)

\* Coin::decode(&mut decoder)
CoinDecode ==
    /\ MayDecode("Coin")
    /\ \E r \in {Coin_decode(decoder)} :
           /\ result' = r.res
           /\ decoder' = r.d
    /\ op' = "Coin::decode"
    /\ calls' = <<"uint">>
    /\ pc' = "done"
    /\ UNCHANGED <<arg, origin, buf, addr>>

\* Hash::decode(&mut decoder)
HashDecode ==
    /\ MayDecode("Hash")
    /\ \E r \in {Hash_decode(decoder)} :
           /\ result' = r.res
           /\ decoder' = r.d
    /\ op' = "Hash::decode"
    /\ calls' = <<"bs">>
    /\ pc' = "done"
    /\ UNCHANGED <<arg, origin, buf, addr>>

\* TxOut::decode, entry to the array-length check
TxOutDecodeArray ==
    /\ MayDecode("TxOut")
    /\ \E r \in {TxOut_decode_array(decoder)} :
           /\ decoder' = r.d
           /\ IF r.res.ok
              THEN pc' = "TxOut::decode:122" /\ UNCHANGED result
              ELSE pc' = "done" /\ result' = r.res
    /\ op' = "TxOut::decode"
    /\ calls' = <<"array_start">>
    /\ UNCHANGED <<arg, origin, buf, addr>>

\* TxOut::decode, the address
TxOutDecodeAddr ==
    /\ pc = "TxOut::decode:122"
    /\ \E r \in {TxOut_decode_addr(decoder)} :
           /\ decoder' = r.d
           /\ IF r.res.ok
              THEN pc' = "TxOut::decode:124" /\ addr' = Some(Unwrap(r.res.val)) /\ UNCHANGED result
              ELSE pc' = "done" /\ result' = r.res /\ UNCHANGED addr
    /\ calls' = Append(calls, "decode_with_crc32")
    /\ UNCHANGED <<op, arg, origin, buf>>

\* TxOut::decode, the coin and the return
TxOutDecodeCoin ==
    /\ pc = "TxOut::decode:124"
    /\ \E r \in {TxOut_decode_coin(decoder, Unwrap(addr))} :
           /\ decoder' = r.d
           /\ result' = r.res
    /\ calls' = Append(calls, "Coin::decode")
    /\ pc' = "done"
    /\ UNCHANGED <<op, arg, origin, buf, addr>>

\* the call has returned; the next one starts from nothing
Return ==
    /\ pc = "done"
    /\ op' = "none"
    /\ pc' = "idle"
    /\ arg' = NoArg
    /\ origin' = NoOrigin
    /\ buf' = <<>>
    /\ decoder' = <<>>
    /\ addr' = None
    /\ calls' = <<>>
    /\ result' = Err("")

Next ==
    \/ \E v \in CoinInputs : CoinNew(v)
    \/ \E b \in SliceInputs : HashFromSlice(b)
    \/ \E tx \in TxValues, ws \in WitnessLists : TxAuxConstruct(tx, ws)
    \/ \E ty \in Types : \E x \in ValuesOf(ty) : EncodeValue(ty, x)
    \/ ExtendEncoded
    \/ \E w \in WireInputs : Extend(w)
    \/ CoinDecode
    \/ HashDecode
    \/ TxOutDecodeArray
    \/ TxOutDecodeAddr
    \/ TxOutDecodeCoin
    \/ Return

Spec == Init /\ [][Next]_vars
(***************************************************************************)
(* Properties                                                              *)
(***************************************************************************)
\* v <= 45000000000000000, computed on three limbs of 16, 24 and 24 bits:
\* 45000000000000000 = 159 * 2^48 + 14631670 * 2^24 + 14974976
WithinSupply(v) ==
    LET hi == v[1] * 256 + v[2]
        mid == (v[3] * 256 + v[4]) * 256 + v[5]
        lo == (v[6] * 256 + v[7]) * 256 + v[8]
    IN  \/ hi < 159
        \/ hi = 159 /\ mid < 14631670
        \/ hi = 159 /\ mid = 14631670 /\ lo <= 14974976

Returned == pc = "done"

\* C1: for every valid value x of Coin, Hash, TxOut, Tx and TxAux, decoding
\* the bytes produced by encode(x) succeeds and yields a value equal to x.
C1_RoundTrip == (Returned /\ origin.ty \in Types) => result = Ok(origin.val)

\* C1, the part the code implements: the round trip of Coin, Hash and TxOut.
C1_RoundTripImplemented == (Returned /\ origin.ty \in CborImpls) => result = Ok(origin.val)

C1_Witness == Returned /\ origin.ty = "TxOut" /\ result = Ok(origin.val)

\* C2: Coin::new(v) returns a Coin holding exactly v iff v <= MAX_COIN, for
\* the amounts at the bound in particular, and every Coin an operation
\* returns holds a value in [0, MAX_COIN].
C2_CoinNewBound ==
    /\ (Returned /\ op = "Coin::new") =>
          /\ IsSome(result) <=> WithinSupply(arg.v)
          /\ IsSome(result) => Unwrap(result).value = arg.v
          /\ arg.v = <<0, 159, 223, 66, 246, 228, 128, 0>> => IsSome(result)
          /\ arg.v = <<0, 159, 223, 66, 246, 228, 128, 1>> => result = None
    /\ (Returned /\ op = "Coin::decode" /\ result.ok) => WithinSupply(Unwrap(result.val).value)
    /\ (Returned /\ op = "TxOut::decode" /\ result.ok) => WithinSupply(Unwrap(result.val).value.value)

C2_Witness ==
    /\ Returned /\ op = "Coin::new"
    /\ arg.v = <<0, 159, 223, 66, 246, 228, 128, 0>>
    /\ result = <<[value |-> arg.v]>>

\* C3: Coin::decode reads one unsigned integer v; when v > MAX_COIN it fails
\* with the out-of-bound error, and when v <= MAX_COIN it returns a Coin
\* holding exactly v, never a clamped or truncated one.
C3_CoinDecodeBound ==
    (Returned /\ op = "Coin::decode" /\ arg.kind = "uint") =>
        IF WithinSupply(arg.v)
        THEN result = Ok([value |-> arg.v])
        ELSE result = Err(OutOfBounds)

C3_Witness ==
    /\ Returned /\ op = "Coin::decode" /\ arg.kind = "uint"
    /\ ~WithinSupply(arg.v)
    /\ result = Err(OutOfBounds)

\* C4: Hash::from_slice(bytes) succeeds iff bytes has exactly 32 bytes, and
\* the hash it returns holds those bytes in order, as from_bytes does.
C4_FromSliceLength ==
    (Returned /\ op = "Hash::from_slice") =>
        /\ IsSome(result) <=> Len(arg.slice) = 32
        /\ Len(arg.slice) \in {31, 33} => result = None
        /\ IsSome(result) =>
              /\ \A i \in 1..32 : Unwrap(result).digest[i] = arg.slice[i]
              /\ Unwrap(result) = Hash_from_bytes(arg.slice)

C4_Witness ==
    /\ Returned /\ op = "Hash::from_slice"
    /\ Len(arg.slice) = 32
    /\ IsSome(result)

\* C5: Hash::decode reads one byte string and fails with the invalid-length
\* error when it is not exactly 32 bytes long; when it is, the decode
\* succeeds with a hash whose digest is those bytes.
C5_HashDecodeLength ==
    (Returned /\ op = "Hash::decode" /\ arg.kind = "bs") =>
        IF Len(arg.slice) = 32
        THEN result = Ok([digest |-> arg.slice])
        ELSE result = Err(InvalidLength)

C5_Witness ==
    /\ Returned /\ op = "Hash::decode" /\ arg.kind = "bs"
    /\ Len(arg.slice) = 31
    /\ result = Err(InvalidLength)

\* C6: TxOut::decode reads the array marker first, and when the declared
\* element count is not 2 it fails with the malformed-structure error before
\* any field is read: no address decode and no coin decode is attempted.
C6_ArrayLengthFirst ==
    (op = "TxOut::decode" /\ arg.kind = "txout" /\ arg.n # 2) =>
        /\ Returned
        /\ result = Err(MalformedStructure)
        /\ calls = <<"array_start">>
        /\ addr = None
        /\ decoder = Drop(arg.bytes, 1)

C6_Witness ==
    /\ Returned /\ op = "TxOut::decode" /\ arg.kind = "txout"
    /\ arg.n = 3 /\ arg.wrap = "ok" /\ WithinSupply(arg.v)
    /\ result = Err(MalformedStructure)

\* C7: decoding a 2-element array holding the checksum-wrapped encoding of an
\* address A and an unsigned integer v <= MAX_COIN yields the TxOut whose
\* address is A, field for field, and whose value is Coin(v); the bytes are
\* in the order TxOut::encode writes them.  The test vector of tx.rs decodes
\* to Coin(42), a public-key address, the bootstrap-era distribution and the
\* derivation path [1,2,3,4,5].
C7_DecodeWireOrder ==
    /\ (Returned /\ op = "TxOut::decode" /\ arg.kind = "txout"
            /\ arg.n = 2 /\ arg.wrap = "ok" /\ WithinSupply(arg.v)) =>
          /\ result.ok
          /\ Unwrap(result.val).address.addr = arg.ea.addr
          /\ Unwrap(result.val).address.addr_type = arg.ea.addr_type
          /\ Unwrap(result.val).address.attributes.stake_distribution
                = arg.ea.attributes.stake_distribution
          /\ Unwrap(result.val).address.attributes.derivation_path
                = arg.ea.attributes.derivation_path
          /\ Unwrap(result.val).value = [value |-> arg.v]
          /\ TxOut_encode(Unwrap(result.val), <<>>) = arg.bytes
    /\ (Returned /\ op = "TxOut::decode" /\ arg.kind = "vector" /\ arg.cut = Len(TX_OUT)) =>
          /\ result.ok
          /\ Unwrap(result.val).value = [value |-> U64Of(42)]
          /\ Unwrap(result.val).address.addr_type = ATPubKey
          /\ Unwrap(result.val).address.attributes.stake_distribution = BootstrapEraDistr
          /\ Unwrap(result.val).address.attributes.derivation_path = Some(<<1, 2, 3, 4, 5>>)
          /\ TxOut_encode(Unwrap(result.val), <<>>) = TX_OUT

C7_Witness ==
    /\ Returned /\ op = "TxOut::decode" /\ arg.kind = "txout"
    /\ arg.n = 2 /\ arg.wrap = "ok" /\ arg.v = MAX_COIN
    /\ arg.ea.attributes.stake_distribution.kind = "SingleKeyDistr"
    /\ result.ok

\* C8: every TxAux that is constructed has as many witnesses as its
\* transaction has inputs; a construction with a different count is rejected.
C8_WitnessAlignment ==
    (Returned /\ op = "TxAux") =>
        IF Len(arg.witnesses) = Len(arg.tx.inputs)
        THEN result.ok /\ Len(Unwrap(result.val).witnesses) = Len(Unwrap(result.val).tx.inputs)
        ELSE ~result.ok

\* C9: TxOut::decode returns a TxOut only if the array-marker read, the
\* address decode and the coin decode all succeed; when one of them fails the
\* decode stops there and returns that step's error unchanged.
C9_NoPartialSuccess ==
    (Returned /\ op = "TxOut::decode") =>
        \E a \in {Decoder_array_start(arg.bytes)} :
            IF ~a.res.ok THEN result = a.res /\ calls = <<"array_start">>
            ELSE IF Unwrap(a.res.val) # <<0, 0, 0, 0, 0, 0, 0, 2>>
                 THEN ~result.ok /\ calls = <<"array_start">>
            ELSE \E w \in {decode_with_crc32(a.d)} :
                    IF ~w.res.ok
                    THEN result = w.res /\ calls = <<"array_start", "decode_with_crc32">>
                    ELSE \E c \in {Coin_decode(w.d)} :
                            /\ calls = <<"array_start", "decode_with_crc32", "Coin::decode">>
                            /\ IF ~c.res.ok
                               THEN result = c.res
                               ELSE result = Ok([address |-> Unwrap(w.res.val),
                                                 value |-> Unwrap(c.res.val)])

C9_Witness ==
    /\ Returned /\ op = "TxOut::decode"
    /\ calls = <<"array_start", "decode_with_crc32", "Coin::decode">>
    /\ IsSome(addr)
    /\ result = Err(OutOfBounds)

\* C10: the checks of TxOut::decode run in wire order, array length, then
\* address checksum, then coin bound, and the first that fails decides the
\* error: a wrong length with a bad checksum reports the length, a bad
\* checksum with a coin above MAX_COIN reports the checksum, and the coin is
\* only read once the address has been decoded.
C10_ErrorPrecedence ==
    op = "TxOut::decode" =>
        /\ calls \in {<<"array_start">>, <<"array_start", "decode_with_crc32">>,
                      <<"array_start", "decode_with_crc32", "Coin::decode">>}
        /\ Len(calls) = 3 => IsSome(addr)
        /\ (Returned /\ arg.kind = "txout") =>
              IF arg.n # 2 THEN result = Err(MalformedStructure)
              ELSE IF arg.wrap # "ok" THEN result = Err(ChecksumMismatch)
              ELSE IF ~WithinSupply(arg.v) THEN result = Err(OutOfBounds)
              ELSE result.ok

C10_Witness ==
    /\ Returned /\ op = "TxOut::decode" /\ arg.kind = "txout"
    /\ arg.n = 2 /\ arg.wrap = "badcrc" /\ ~WithinSupply(arg.v)
    /\ result = Err(ChecksumMismatch)
    /\ calls = <<"array_start", "decode_with_crc32">>
====
